---- MODULE Spec2Model ----
(***************************************************************************)
(* Planning API (src/main.py): role-gated list / create / update handlers  *)
(* over the employees, assignments and unavailabilities tables.            *)
(*                                                                         *)
(* A request is received (req[p]), then handled.  Every handler is one     *)
(* atomic step (local validation followed by one SQL statement and its     *)
(* commit), except update_assignment, which reads the stored status in one *)
(* statement and writes in a later one: other requests may commit between  *)
(* the two (READ COMMITTED).  last[p] is the exchange worker p completed    *)
(* last: the request (as the handler held it when it returned) and the     *)
(* response; it is empty while p handles a request.  statusBy and the      *)
(* beside field of an exchange are history: no handler reads them.         *)
(***************************************************************************)
EXTENDS Integers, Sequences, FiniteSets, TLC

VARIABLES employees, assignments, statusBy, unavailabilities, req, last

vars == <<employees, assignments, statusBy, unavailabilities, req, last>>
tables == <<employees, assignments, unavailabilities>>

\* ------------------------------------------------------------------ bounds
MaxEmployees == 2
MaxAssignments == 2
MaxUnavail == 2

\* ------------------------------------------------------------- basic values
\* None in Python, NULL in SQL, for text columns
NULL == "<null>"
\* None for an id (user["employee_id"] of an unlinked profile)
NoId == 0

Procs == {"p1", "p2"}

SALARIE == "SALARIE"
CHEF_CHANTIER == "CHEF_CHANTIER"
RESPONSABLE == "RESPONSABLE"
AppRole == {SALARIE, CHEF_CHANTIER, RESPONSABLE}

BROUILLON == "BROUILLON"
SOUMIS == "SOUMIS"
VALIDE == "VALIDE"
REFUSE == "REFUSE"

Has(payload, k) == k \in DOMAIN payload
Get(payload, k, default) == IF k \in DOMAIN payload THEN payload[k] ELSE default

\* ---------------------------------------------------------------- responses
NoResp == [code |-> 0, detail |-> "", id |-> NoId, updated |-> 0, rows |-> <<>>]
HTTPException(status_code, detail) ==
    [code |-> status_code, detail |-> detail, id |-> NoId, updated |-> 0, rows |-> <<>>]
ServerError == HTTPException(500, "Internal Server Error")
OkId(new_id) == [code |-> 200, detail |-> "id", id |-> new_id, updated |-> 0, rows |-> <<>>]
OkUpdated(n) == [code |-> 200, detail |-> "updated", id |-> NoId, updated |-> n, rows |-> <<>>]
OkRows(rows) == [code |-> 200, detail |-> "rows", id |-> NoId, updated |-> 0, rows |-> rows]

IsError(r) == r.code >= 400

\* ------------------------------------------------------------------- auth
\* public.user_profiles: read-only for this program
user_profiles ==
    { [user_id |-> "resp", role |-> RESPONSABLE,   employee_id |-> NoId, is_active |-> TRUE],
      [user_id |-> "chef", role |-> CHEF_CHANTIER, employee_id |-> NoId, is_active |-> TRUE],
      [user_id |-> "sal1", role |-> SALARIE,       employee_id |-> 1,    is_active |-> TRUE],
      [user_id |-> "sal2", role |-> SALARIE,       employee_id |-> 2,    is_active |-> TRUE],
      [user_id |-> "sal0", role |-> SALARIE,       employee_id |-> NoId, is_active |-> TRUE],
      [user_id |-> "gone", role |-> CHEF_CHANTIER, employee_id |-> NoId, is_active |-> FALSE] }

\* The Authorization header, by what the token checks make of it: no header,
\* not "Bearer <token>", a token that fails decoding, or a verified token with
\* its "sub" claim (NULL when the claim is missing).
Credentials ==
    { [kind |-> "missing", sub |-> NULL], [kind |-> "malformed", sub |-> NULL],
      [kind |-> "invalid", sub |-> NULL], [kind |-> "valid", sub |-> NULL],
      [kind |-> "valid", sub |-> "nobody"] }
    \cup { [kind |-> "valid", sub |-> u.user_id] : u \in user_profiles }

Cred(user_id) == [kind |-> "valid", sub |-> user_id]

ProfileOf(user_id) == CHOOSE u \in user_profiles : u.user_id = user_id

\* get_current_user: the user, or the HTTPException it raises
get_current_user(cred) ==
    IF cred.kind = "missing" THEN HTTPException(401, "Missing Authorization header")
    ELSE IF cred.kind = "malformed" THEN HTTPException(401, "Authorization must be: Bearer <token>")
    ELSE IF cred.kind = "invalid" THEN HTTPException(401, "Invalid or expired token")
    ELSE IF cred.sub = NULL THEN HTTPException(401, "Token missing 'sub'")
    ELSE IF ~\E u \in user_profiles : u.user_id = cred.sub
         THEN HTTPException(403, "No profile found. Create user_profiles row for this user.")
    ELSE IF ProfileOf(cred.sub).is_active = FALSE THEN HTTPException(403, "User profile disabled")
    ELSE [code |-> 200, user_id |-> cred.sub, role |-> ProfileOf(cred.sub).role,
          employee_id |-> ProfileOf(cred.sub).employee_id]

\* require_roles(*allowed)
require_roles(allowed, cred) ==
    LET user == get_current_user(cred) IN
    IF user.code # 200 THEN user
    ELSE IF user.role \notin allowed THEN HTTPException(403, "Forbidden for role")
    ELSE user

\* --------------------------------------------------------------- requests
Idle == [op |-> "idle"]

Request(op, cred, payload, id, q) ==
    [op |-> op, cred |-> cred, payload |-> payload, id |-> id, q |-> q,
     pc |-> "start", current_status |-> NULL]

NoPayload == [x \in {} |-> NULL]

InFlight(p, op) == req[p].op = op

Others(p) == Procs \ {p}
NoExchange == [request |-> Idle, response |-> NoResp, beside |-> Idle]

\* A request arrives at worker p
Receive(p, r) ==
    /\ req[p] = Idle
    /\ req' = [req EXCEPT ![p] = r]
    /\ last' = [last EXCEPT ![p] = NoExchange]
    /\ UNCHANGED <<employees, assignments, statusBy, unavailabilities>>

\* The handler of p returns (or raises) r.  beside: the request the other
\* worker was handling at that moment, so overlapped with this one.
Reply(p, r) ==
    /\ req' = [req EXCEPT ![p] = Idle]
    /\ last' = [last EXCEPT ![p] = [request |-> req[p], response |-> r,
                                    beside |-> req[CHOOSE q \in Others(p) : TRUE]]]

\* --------------------------------------------------------------- ordering
\* ORDER BY leaves rows with equal keys in any order: every ordering of the
\* rows that respects Leq is a possible result.
Ordered(S, Leq(_, _)) ==
    { s \in [1..Cardinality(S) -> S] :
        /\ \A i, j \in 1..Cardinality(S) : i # j => s[i] # s[j]
        /\ \A i, j \in 1..Cardinality(S) : i < j => Leq(s[i], s[j]) }

Alphabet == <<" ", "a", "b">>
Rank(c) == CHOOSE i \in 1..Len(Alphabet) : Alphabet[i] = c

RECURSIVE StrCmp(_, _)
\* -1, 0, 1 as s sorts before, with, after t
StrCmp(s, t) ==
    IF s = <<>> /\ t = <<>> THEN 0
    ELSE IF s = <<>> THEN -1
    ELSE IF t = <<>> THEN 1
    ELSE IF Head(s) = Head(t) THEN StrCmp(Tail(s), Tail(t))
    ELSE IF Rank(Head(s)) < Rank(Head(t)) THEN -1 ELSE 1

\* ---------------------------------------------------------------- strings
IsSpace(c) == c = " "

RECURSIVE lstrip(_)
lstrip(s) == IF s # <<>> /\ IsSpace(Head(s)) THEN lstrip(Tail(s)) ELSE s

RECURSIVE rstrip(_)
rstrip(s) == IF s # <<>> /\ IsSpace(s[Len(s)]) THEN rstrip(SubSeq(s, 1, Len(s) - 1)) ELSE s

\* str.strip()
strip(s) == rstrip(lstrip(s))

\* -------------------------------------------------------------- employees
\* public.employees; the id of a row is its index (ids are generated in order)
EmployeeRow(i, emps) ==
    [id |-> i, first_name |-> emps[i].first_name, last_name |-> emps[i].last_name,
     email |-> emps[i].email, phone |-> emps[i].phone, is_active |-> emps[i].is_active]

\* order by last_name, first_name
EmployeeLeq(a, b) ==
    \/ StrCmp(a.last_name, b.last_name) < 0
    \/ StrCmp(a.last_name, b.last_name) = 0 /\ StrCmp(a.first_name, b.first_name) <= 0

\* list_employees: the set of responses it may give
list_employees(cred, emps) ==
    LET user == get_current_user(cred) IN
    IF user.code # 200 THEN {user}
    ELSE IF user.role \in {CHEF_CHANTIER, RESPONSABLE}
    THEN { OkRows(rows) :
             rows \in Ordered({ EmployeeRow(i, emps) : i \in { j \in 1..Len(emps) : emps[j].is_active } },
                              EmployeeLeq) }
    ELSE IF user.employee_id = NoId THEN {OkRows(<<>>)}
    ELSE IF user.employee_id \in 1..Len(emps)
         THEN {OkRows(<<EmployeeRow(user.employee_id, emps)>>)}
         ELSE {OkRows(<<>>)}

ListEmployees(p) ==
    /\ InFlight(p, "list_employees")
    /\ \E r \in list_employees(req[p].cred, employees) : Reply(p, r)
    /\ UNCHANGED <<employees, assignments, statusBy, unavailabilities>>

\* Mutant: lstrip() for strip()
NewEmployeeLstrip(payload) ==
    [first_name |-> lstrip(payload["first_name"]), last_name |-> lstrip(payload["last_name"]),
     email |-> Get(payload, "email", NULL), phone |-> Get(payload, "phone", NULL),
     is_active |-> TRUE]

\* The values of the insert: names stripped, email and phone as given (None when absent)
NewEmployee(payload) ==
    [first_name |-> strip(payload["first_name"]), last_name |-> strip(payload["last_name"]),
     email |-> Get(payload, "email", NULL), phone |-> Get(payload, "phone", NULL),
     is_active |-> TRUE]

\* create_employee: [resp, employees] after the call
create_employee(cred, payload, emps) ==
    LET user == require_roles({RESPONSABLE}, cred) IN
    IF user.code # 200 THEN [resp |-> user, employees |-> emps]
    ELSE IF ~Has(payload, "first_name") \/ strip(payload["first_name"]) = <<>>
         THEN [resp |-> HTTPException(400, "Missing field: first_name"), employees |-> emps]
    ELSE IF ~Has(payload, "last_name") \/ strip(payload["last_name"]) = <<>>
         THEN [resp |-> HTTPException(400, "Missing field: last_name"), employees |-> emps]
    ELSE [resp |-> OkId(Len(emps) + 1), employees |-> Append(emps, NewEmployee(payload))]

CreateEmployee(p) ==
    /\ InFlight(p, "create_employee")
    /\ LET out == create_employee(req[p].cred, req[p].payload, employees) IN
         /\ Len(out.employees) <= MaxEmployees
         /\ employees' = out.employees
         /\ Reply(p, out.resp)
    /\ UNCHANGED <<assignments, statusBy, unavailabilities>>

\* ------------------------------------------------------------ assignments
\* The store's column domains (enum types of the schema)
activity_type == <<"ME1", "ME2">>
role_code == <<"R1">>
shift_code == <<"S1">>
request_status == <<BROUILLON, SOUMIS, VALIDE, REFUSE>>
Dates == {1, 2}

Elems(seq) == { seq[i] : i \in 1..Len(seq) }
EnumRank(enum, v) == CHOOSE i \in 1..Len(enum) : enum[i] = v

Slot(row) == <<row.employee_id, row.assign_date, row.activity, row.role, row.shift>>

\* The store accepts the table: column domains, the foreign key to employees,
\* one row per (employee, date, activity, role, shift)
AssignmentsAccepted(asgs, emps) ==
    /\ \A i \in 1..Len(asgs) :
         /\ asgs[i].employee_id \in 1..Len(emps)
         /\ asgs[i].activity \in Elems(activity_type)
         /\ asgs[i].assign_date \in Dates
         /\ asgs[i].role \in Elems(role_code)
         /\ asgs[i].shift \in Elems(shift_code)
         /\ asgs[i].status \in Elems(request_status)
    /\ \A i, j \in 1..Len(asgs) : i # j => Slot(asgs[i]) # Slot(asgs[j])

AssignmentRow(i, asgs, emps) ==
    [id |-> i, employee_id |-> asgs[i].employee_id,
     first_name |-> emps[asgs[i].employee_id].first_name,
     last_name |-> emps[asgs[i].employee_id].last_name,
     activity |-> asgs[i].activity, assign_date |-> asgs[i].assign_date,
     role |-> asgs[i].role, shift |-> asgs[i].shift, is_pf |-> asgs[i].is_pf,
     status |-> asgs[i].status]

\* order by a.assign_date, a.activity, a.role, a.shift
AssignmentLeq(a, b) ==
    LET ka == <<a.assign_date, EnumRank(activity_type, a.activity),
                EnumRank(role_code, a.role), EnumRank(shift_code, a.shift)>>
        kb == <<b.assign_date, EnumRank(activity_type, b.activity),
                EnumRank(role_code, b.role), EnumRank(shift_code, b.shift)>>
    IN \/ ka = kb
       \/ \E n \in 1..4 : ka[n] < kb[n] /\ \A m \in 1..(n - 1) : ka[m] = kb[m]

\* Mutant: the SALARIE restriction is left out of the where clause
AssignmentMatchesAnyOwner(row, q, user) ==
    /\ Has(q, "activity") => row.activity = q.activity
    /\ Has(q, "date_from") => row.assign_date >= q.date_from
    /\ Has(q, "date_to") => row.assign_date <= q.date_to

\* The where clause of list_assignments, in the order the code builds it
AssignmentMatches(row, q, user) ==
    /\ Has(q, "activity") => row.activity = q.activity
    /\ Has(q, "date_from") => row.assign_date >= q.date_from
    /\ Has(q, "date_to") => row.assign_date <= q.date_to
    /\ user.role = SALARIE => row.employee_id = user.employee_id

\* list_assignments: the set of responses it may give
list_assignments(cred, q, asgs, emps) ==
    LET user == get_current_user(cred) IN
    IF user.code # 200 THEN {user}
    ELSE IF user.role = SALARIE /\ user.employee_id = NoId THEN {OkRows(<<>>)}
    ELSE IF Has(q, "activity") /\ q.activity \notin Elems(activity_type) THEN {ServerError}
    ELSE { OkRows(rows) :
             rows \in Ordered({ AssignmentRow(i, asgs, emps) :
                                  i \in { j \in 1..Len(asgs) : AssignmentMatches(asgs[j], q, user) } },
                              AssignmentLeq) }

ListAssignments(p) ==
    /\ InFlight(p, "list_assignments")
    /\ \E r \in list_assignments(req[p].cred, req[p].q, assignments, employees) : Reply(p, r)
    /\ UNCHANGED <<employees, assignments, statusBy, unavailabilities>>

AssignmentRequired == <<"employee_id", "activity", "assign_date", "role", "shift", "status">>

MissingField(payload, required) ==
    IF \A i \in 1..Len(required) : Has(payload, required[i]) THEN NULL
    ELSE required[CHOOSE i \in 1..Len(required) :
                    /\ ~Has(payload, required[i])
                    /\ \A j \in 1..(i - 1) : Has(payload, required[j])]

\* bool(v) of a JSON value, written as its literal: false, 0, "" and null are falsy
bool(v) == v \notin {"false", "0", "\"\"", "null"}

\* The values of the insert of create_assignment.  created_by (the caller's
\* user id) is written here and read by no handler; statusBy keeps, for each
\* row, the user whose request wrote its status last.
NewAssignment(payload, user) ==
    [employee_id |-> payload["employee_id"], activity |-> payload["activity"],
     assign_date |-> payload["assign_date"], role |-> payload["role"],
     shift |-> payload["shift"], is_pf |-> bool(Get(payload, "is_pf", "false")),
     status |-> payload["status"]]

\* Chef can only create BROUILLON/SOUMIS assignments
ChefMayCreate(status) == status \in {BROUILLON, SOUMIS}

\* Mutant: the insert is not wrapped in try/except
create_assignment_NoCatch(cred, payload, asgs, emps) ==
    LET user == require_roles({CHEF_CHANTIER, RESPONSABLE}, cred)
        same == [resp |-> NoResp, assignments |-> asgs, wrote |-> FALSE]
    IN
    IF user.code # 200 THEN [same EXCEPT !.resp = user]
    ELSE IF MissingField(payload, AssignmentRequired) # NULL
         THEN [same EXCEPT !.resp = HTTPException(400, "Missing field")]
    ELSE IF user.role = CHEF_CHANTIER /\ ~ChefMayCreate(payload["status"])
         THEN [same EXCEPT !.resp = HTTPException(403, "Chef can only create BROUILLON/SOUMIS assignments")]
    ELSE IF ~AssignmentsAccepted(Append(asgs, NewAssignment(payload, user)), emps)
         THEN [same EXCEPT !.resp = ServerError]
    ELSE [resp |-> OkId(Len(asgs) + 1),
          assignments |-> Append(asgs, NewAssignment(payload, user)), wrote |-> TRUE]

\* create_assignment: [resp, assignments, wrote] after the call
create_assignment(cred, payload, asgs, emps) ==
    LET user == require_roles({CHEF_CHANTIER, RESPONSABLE}, cred)
        same == [resp |-> NoResp, assignments |-> asgs, wrote |-> FALSE]
    IN
    IF user.code # 200 THEN [same EXCEPT !.resp = user]
    ELSE IF MissingField(payload, AssignmentRequired) # NULL
         THEN [same EXCEPT !.resp = HTTPException(400, "Missing field")]
    ELSE IF user.role = CHEF_CHANTIER /\ ~ChefMayCreate(payload["status"])
         THEN [same EXCEPT !.resp = HTTPException(403, "Chef can only create BROUILLON/SOUMIS assignments")]
    ELSE IF ~AssignmentsAccepted(Append(asgs, NewAssignment(payload, user)), emps)
         THEN [same EXCEPT !.resp = HTTPException(400, "Insert failed")]
    ELSE [resp |-> OkId(Len(asgs) + 1),
          assignments |-> Append(asgs, NewAssignment(payload, user)), wrote |-> TRUE]

CreateAssignment(p) ==
    /\ InFlight(p, "create_assignment")
    /\ LET out == create_assignment(req[p].cred, req[p].payload, assignments, employees) IN
         /\ Len(out.assignments) <= MaxAssignments
         /\ assignments' = out.assignments
         /\ statusBy' = IF out.wrote THEN Append(statusBy, req[p].cred.sub) ELSE statusBy
         /\ Reply(p, out.resp)
    /\ UNCHANGED <<employees, unavailabilities>>

\* update_assignment, first statement: select status where id = assignment_id
UpdateAssignmentRead(p) ==
    /\ InFlight(p, "update_assignment")
    /\ req[p].pc = "start"
    /\ LET user == require_roles({CHEF_CHANTIER, RESPONSABLE}, req[p].cred) IN
         IF user.code # 200 THEN Reply(p, user)
         ELSE IF req[p].id \notin 1..Len(assignments)
              THEN Reply(p, HTTPException(404, "Assignment not found"))
         ELSE /\ req' = [req EXCEPT ![p].pc = "write",
                                    ![p].current_status = assignments[req[p].id].status]
              /\ UNCHANGED last
    /\ UNCHANGED <<employees, assignments, statusBy, unavailabilities>>

allowed_fields == {"activity", "assign_date", "role", "shift", "is_pf", "status"}

\* Mutant: every key of the payload counts, the allow-list is not applied
SetsAnyKey(payload) == DOMAIN payload

\* The sets of the update statement: the recognised keys of the payload
Sets(payload) == DOMAIN payload \cap allowed_fields

\* The row after "update ... set <sets>"
UpdatedRow(row, payload) ==
    [k \in DOMAIN row |->
        IF k \notin Sets(payload) THEN row[k]
        ELSE IF k = "is_pf" THEN bool(payload[k]) ELSE payload[k]]

\* Mutant: VALIDE is taken for a status the chef may still edit
ChefMayEditValide(current_status) == current_status \in {BROUILLON, SOUMIS, VALIDE}

\* Chef cannot edit after validation/refusal
ChefMayEdit(current_status) == current_status \in {BROUILLON, SOUMIS}

\* Mutant: only VALIDE is refused to the chef
ChefMayProposeRefuse(payload) == ~(Has(payload, "status") /\ payload["status"] = VALIDE)

\* Chef cannot validate/refuse
ChefMayPropose(payload) == ~(Has(payload, "status") /\ payload["status"] \in {VALIDE, REFUSE})

\* Mutant: the empty update returns before the role checks
update_assignment_EmptyFirst(user, id, payload, current_status, asgs, emps) ==
    LET same == [resp |-> NoResp, assignments |-> asgs, wrote |-> FALSE]
        after == [asgs EXCEPT ![id] = UpdatedRow(asgs[id], payload)]
    IN
    IF Sets(payload) = {} THEN [same EXCEPT !.resp = OkUpdated(0)]
    ELSE IF user.role = CHEF_CHANTIER /\ ~ChefMayEdit(current_status)
    THEN [same EXCEPT !.resp = HTTPException(403, "Chef cannot edit after validation/refusal")]
    ELSE IF user.role = CHEF_CHANTIER /\ ~ChefMayPropose(payload)
    THEN [same EXCEPT !.resp = HTTPException(403, "Chef cannot validate/refuse")]
    ELSE IF ~AssignmentsAccepted(after, emps) THEN [same EXCEPT !.resp = ServerError]
    ELSE [resp |-> OkUpdated(1), assignments |-> after, wrote |-> TRUE]

\* update_assignment after the select: [resp, assignments, wrote]
update_assignment(user, id, payload, current_status, asgs, emps) ==
    LET same == [resp |-> NoResp, assignments |-> asgs, wrote |-> FALSE]
        after == [asgs EXCEPT ![id] = UpdatedRow(asgs[id], payload)]
    IN
    IF user.role = CHEF_CHANTIER /\ ~ChefMayEdit(current_status)
    THEN [same EXCEPT !.resp = HTTPException(403, "Chef cannot edit after validation/refusal")]
    ELSE IF user.role = CHEF_CHANTIER /\ ~ChefMayPropose(payload)
    THEN [same EXCEPT !.resp = HTTPException(403, "Chef cannot validate/refuse")]
    ELSE IF Sets(payload) = {} THEN [same EXCEPT !.resp = OkUpdated(0)]
    ELSE IF ~AssignmentsAccepted(after, emps) THEN [same EXCEPT !.resp = ServerError]
    ELSE [resp |-> OkUpdated(1), assignments |-> after, wrote |-> TRUE]

\* update_assignment, from the checks to the update statement and its commit
UpdateAssignmentWrite(p) ==
    /\ InFlight(p, "update_assignment")
    /\ req[p].pc = "write"
    /\ LET out == update_assignment(get_current_user(req[p].cred), req[p].id, req[p].payload,
                                    req[p].current_status, assignments, employees) IN
         /\ assignments' = out.assignments
         /\ statusBy' = IF out.wrote /\ Has(req[p].payload, "status")
                        THEN [statusBy EXCEPT ![req[p].id] = req[p].cred.sub] ELSE statusBy
         /\ Reply(p, out.resp)
    /\ UNCHANGED <<employees, unavailabilities>>

\* ------------------------------------------------------- unavailabilities
unavailability_type == <<"CP", "MALADIE">>
availability_impact == <<"INDISPONIBLE">>
Times == {NULL, "08:00"}

\* The store accepts the table: column domains and the foreign key to employees
UnavailAccepted(unavs, emps) ==
    \A i \in 1..Len(unavs) :
        /\ unavs[i].employee_id \in 1..Len(emps)
        /\ unavs[i].type \in Elems(unavailability_type)
        /\ unavs[i].start_date \in Dates
        /\ unavs[i].end_date \in Dates
        /\ unavs[i].start_time \in Times
        /\ unavs[i].end_time \in Times
        /\ unavs[i].impact \in Elems(availability_impact)
        /\ unavs[i].status \in Elems(request_status)

UnavailRow(i, unavs, emps) ==
    [id |-> i, employee_id |-> unavs[i].employee_id,
     first_name |-> emps[unavs[i].employee_id].first_name,
     last_name |-> emps[unavs[i].employee_id].last_name,
     type |-> unavs[i].type, impact |-> unavs[i].impact,
     start_date |-> unavs[i].start_date, end_date |-> unavs[i].end_date,
     start_time |-> unavs[i].start_time, end_time |-> unavs[i].end_time,
     status |-> unavs[i].status]

\* order by u.start_date
UnavailLeq(a, b) == a.start_date <= b.start_date

\* The where clause of list_unavail
UnavailMatches(row, q, user) ==
    /\ Has(q, "date_from") => row.start_date >= q.date_from
    /\ Has(q, "date_to") => row.end_date <= q.date_to
    /\ user.role = SALARIE => row.employee_id = user.employee_id

\* list_unavail: the set of responses it may give
list_unavail(cred, q, unavs, emps) ==
    LET user == get_current_user(cred) IN
    IF user.code # 200 THEN {user}
    ELSE IF user.role = SALARIE /\ user.employee_id = NoId THEN {OkRows(<<>>)}
    ELSE { OkRows(rows) :
             rows \in Ordered({ UnavailRow(i, unavs, emps) :
                                  i \in { j \in 1..Len(unavs) : UnavailMatches(unavs[j], q, user) } },
                              UnavailLeq) }

ListUnavail(p) ==
    /\ InFlight(p, "list_unavail")
    /\ \E r \in list_unavail(req[p].cred, req[p].q, unavailabilities, employees) : Reply(p, r)
    /\ UNCHANGED <<employees, assignments, statusBy, unavailabilities>>

UnavailRequired == <<"employee_id", "type", "start_date", "end_date", "impact", "status">>

\* The values of the insert of create_unavail
NewUnavail(payload, user) ==
    [employee_id |-> payload["employee_id"], type |-> payload["type"],
     start_date |-> payload["start_date"], end_date |-> payload["end_date"],
     start_time |-> Get(payload, "start_time", NULL), end_time |-> Get(payload, "end_time", NULL),
     impact |-> payload["impact"], status |-> payload["status"],
     requested_by |-> user.user_id]

\* Mutant: the employee id of the payload is not compared
SalarieLinked(user, payload) == user.employee_id # NoId

\* SALARIE can only create for self
SalarieOwn(user, payload) ==
    ~(user.employee_id = NoId \/ payload["employee_id"] # user.employee_id)

\* SALARIE can only create BROUILLON/SOUMIS
SalarieMayCreate(status) == status \in {BROUILLON, SOUMIS}

\* Mutant: the CHEF_CHANTIER check comes after the insert and its commit
create_unavail_ChefAfterInsert(cred, payload, unavs, emps) ==
    LET user == get_current_user(cred) IN
    IF user.code # 200 THEN [resp |-> user, unavailabilities |-> unavs]
    ELSE IF MissingField(payload, UnavailRequired) # NULL
         THEN [resp |-> HTTPException(400, "Missing field"), unavailabilities |-> unavs]
    ELSE IF user.role = SALARIE /\ ~SalarieOwn(user, payload)
         THEN [resp |-> HTTPException(403, "SALARIE can only create for self"), unavailabilities |-> unavs]
    ELSE IF user.role = SALARIE /\ ~SalarieMayCreate(payload["status"])
         THEN [resp |-> HTTPException(403, "SALARIE can only create BROUILLON/SOUMIS"), unavailabilities |-> unavs]
    ELSE IF ~UnavailAccepted(Append(unavs, NewUnavail(payload, user)), emps)
         THEN [resp |-> ServerError, unavailabilities |-> unavs]
    ELSE IF user.role = CHEF_CHANTIER
         THEN [resp |-> HTTPException(403, "CHEF_CHANTIER cannot create unavailabilities (MVP)"),
               unavailabilities |-> Append(unavs, NewUnavail(payload, user))]
    ELSE [resp |-> OkId(Len(unavs) + 1), unavailabilities |-> Append(unavs, NewUnavail(payload, user))]

\* create_unavail: [resp, unavailabilities] after the call
create_unavail(cred, payload, unavs, emps) ==
    LET user == get_current_user(cred) IN
    IF user.code # 200 THEN [resp |-> user, unavailabilities |-> unavs]
    ELSE IF MissingField(payload, UnavailRequired) # NULL
         THEN [resp |-> HTTPException(400, "Missing field"), unavailabilities |-> unavs]
    ELSE IF user.role = SALARIE /\ ~SalarieOwn(user, payload)
         THEN [resp |-> HTTPException(403, "SALARIE can only create for self"), unavailabilities |-> unavs]
    ELSE IF user.role = SALARIE /\ ~SalarieMayCreate(payload["status"])
         THEN [resp |-> HTTPException(403, "SALARIE can only create BROUILLON/SOUMIS"), unavailabilities |-> unavs]
    ELSE IF user.role = CHEF_CHANTIER
         THEN [resp |-> HTTPException(403, "CHEF_CHANTIER cannot create unavailabilities (MVP)"), unavailabilities |-> unavs]
    ELSE IF ~UnavailAccepted(Append(unavs, NewUnavail(payload, user)), emps)
         THEN [resp |-> ServerError, unavailabilities |-> unavs]
    ELSE [resp |-> OkId(Len(unavs) + 1), unavailabilities |-> Append(unavs, NewUnavail(payload, user))]

CreateUnavail(p) ==
    /\ InFlight(p, "create_unavail")
    /\ LET out == create_unavail(req[p].cred, req[p].payload, unavailabilities, employees) IN
         /\ Len(out.unavailabilities) <= MaxUnavail
         /\ unavailabilities' = out.unavailabilities
         /\ Reply(p, out.resp)
    /\ UNCHANGED <<employees, assignments, statusBy>>

\* ------------------------------------------------------------------- init
Init ==
    /\ employees = <<>>
    /\ assignments = <<>>
    /\ statusBy = <<>>
    /\ unavailabilities = <<>>
    /\ req = [p \in Procs |-> Idle]
    /\ last = [p \in Procs |-> NoExchange]

\* --------------------------------------------------------------- requests
\* What the clients send.  Each specification draws its requests from small
\* sets: wide in the resource it is about, narrow in the others.
NoQuery == NoPayload
BadToken == [kind |-> "invalid", sub |-> NULL]

Names == { <<"a">>, <<" ">>, <<>>, <<" ", "a">>, <<"b", " ">>, <<" ", "a", " ", "b", " ">> }

EmployeePayloads ==
    { NoPayload }
    \cup { [first_name |-> <<"a">>] }
    \cup { [first_name |-> f, last_name |-> l] : f \in Names, l \in Names }
    \cup { [first_name |-> f, last_name |-> <<"b">>, email |-> e] : f \in {<<"a">>, <<" ", "a">>}, e \in {"e1", ""} }
    \cup { [first_name |-> <<"a">>, last_name |-> l, email |-> "e1", phone |-> "p1"] : l \in {<<"b">>, <<"b", " ">>} }

EmployeeRequests ==
    { Request("create_employee", c, pl, NoId, NoQuery) :
        c \in {Cred("resp"), Cred("chef"), Cred("sal1"), BadToken}, pl \in EmployeePayloads }
    \cup { Request("list_employees", c, NoPayload, NoId, NoQuery) : c \in Credentials }

\* One employee payload, for the specifications that are about the other tables
OneEmployee == Request("create_employee", Cred("resp"), [first_name |-> <<"a">>, last_name |-> <<"b">>], NoId, NoQuery)

NextEmployees ==
    \/ \E r \in EmployeeRequests : Receive("p1", r)
    \/ CreateEmployee("p1")
    \/ ListEmployees("p1")

SpecEmployees == Init /\ [][NextEmployees]_vars

AssignmentPayload(e, a, st) ==
    [employee_id |-> e, activity |-> a, assign_date |-> 1, role |-> "R1", shift |-> "S1", status |-> st]

AssignmentPayloads ==
    { AssignmentPayload(1, "ME1", st) : st \in Elems(request_status) }
    \cup { AssignmentPayload(1, "ME2", st) : st \in {BROUILLON, REFUSE} }
    \cup { AssignmentPayload(1, "BAD", BROUILLON), AssignmentPayload(1, "ME1", "BAD"),
           AssignmentPayload(2, "ME1", SOUMIS) }
    \cup { [employee_id |-> 1, activity |-> "ME2", assign_date |-> 1, role |-> "R1", shift |-> "S1",
            status |-> SOUMIS, is_pf |-> "0"] }
    \cup { NoPayload, [status |-> VALIDE],
           [employee_id |-> 1, activity |-> "ME1", assign_date |-> 1, role |-> "R1", shift |-> "S1"] }

UpdatePayloads ==
    { NoPayload, [comment |-> "x"], [id |-> 2, created_by |-> "chef"] }
    \cup { [status |-> st] : st \in Elems(request_status) \cup {"BAD"} }
    \cup { [activity |-> a] : a \in {"ME1", "ME2", "BAD"} }
    \cup { [is_pf |-> v] : v \in {"true", "false", "\"no\""} }
    \cup { [assign_date |-> 1], [role |-> "R1"], [shift |-> "S1"] }
    \cup { [status |-> st, comment |-> "x"] : st \in {SOUMIS, VALIDE} }
    \cup { [activity |-> "ME2", status |-> st] : st \in {BROUILLON, REFUSE} }
    \cup { [activity |-> "ME1", assign_date |-> 1, role |-> "R1", shift |-> "S1", is_pf |-> "true",
            status |-> SOUMIS] }

AssignmentRequests ==
    { Request("create_assignment", c, pl, NoId, NoQuery) :
        c \in {Cred("chef"), Cred("resp")}, pl \in AssignmentPayloads }
    \cup { Request("create_assignment", c, AssignmentPayload(1, "ME1", BROUILLON), NoId, NoQuery) :
             c \in {Cred("sal1"), BadToken} }
    \cup { Request("update_assignment", c, pl, 1, NoQuery) :
             c \in {Cred("chef"), Cred("resp")}, pl \in UpdatePayloads }
    \cup { Request("update_assignment", c, pl, 2, NoQuery) :
             c \in {Cred("chef"), Cred("resp")},
             pl \in {NoPayload, [activity |-> "ME1"], [status |-> VALIDE], [status |-> SOUMIS]} }
    \cup { Request("update_assignment", c, [status |-> VALIDE], 1, NoQuery) :
             c \in {Cred("sal1"), Cred("gone")} }
    \cup { Request("update_assignment", c, pl, 3, NoQuery) :
             c \in {Cred("chef"), Cred("resp")}, pl \in {NoPayload, [status |-> VALIDE]} }
    \cup { Request("list_assignments", Cred("chef"), NoPayload, NoId, NoQuery) }

\* One worker, every payload: the checks of create_assignment and update_assignment
NextAssignments ==
    \/ Receive("p1", OneEmployee)
    \/ \E r \in AssignmentRequests : Receive("p1", r)
    \/ CreateEmployee("p1")
    \/ CreateAssignment("p1")
    \/ UpdateAssignmentRead("p1")
    \/ UpdateAssignmentWrite("p1")
    \/ ListAssignments("p1")

SpecAssignments == Init /\ [][NextAssignments]_vars

RaceRequests ==
    { Request("create_assignment", Cred("chef"), AssignmentPayload(1, "ME1", BROUILLON), NoId, NoQuery),
      Request("create_assignment", Cred("resp"), AssignmentPayload(1, "ME1", VALIDE), NoId, NoQuery),
      Request("update_assignment", Cred("chef"), [status |-> SOUMIS], 1, NoQuery),
      Request("update_assignment", Cred("chef"), [is_pf |-> "true"], 1, NoQuery),
      Request("update_assignment", Cred("resp"), [status |-> VALIDE], 1, NoQuery),
      Request("update_assignment", Cred("resp"), [activity |-> "ME2"], 1, NoQuery) }

\* Two workers: requests in flight together
NextRace ==
    \/ Receive("p1", OneEmployee)
    \/ \E p \in Procs : \E r \in RaceRequests : Receive(p, r)
    \/ CreateEmployee("p1")
    \/ \E p \in Procs : CreateAssignment(p)
    \/ \E p \in Procs : UpdateAssignmentRead(p)
    \/ \E p \in Procs : UpdateAssignmentWrite(p)

SpecRace == Init /\ [][NextRace]_vars

UnavailPayload(e, t, st) ==
    [employee_id |-> e, type |-> t, start_date |-> 1, end_date |-> 2, impact |-> "INDISPONIBLE",
     status |-> st]

UnavailPayloads ==
    { UnavailPayload(e, "CP", st) : e \in {1, 2}, st \in Elems(request_status) }
    \cup { UnavailPayload(1, "BAD", BROUILLON), UnavailPayload(3, "CP", SOUMIS) }
    \cup { [employee_id |-> 1, type |-> "MALADIE", start_date |-> 2, end_date |-> 2,
            start_time |-> "08:00", impact |-> "INDISPONIBLE", status |-> SOUMIS] }
    \cup { NoPayload, [employee_id |-> 1, status |-> VALIDE],
           [employee_id |-> 2, type |-> "CP", start_date |-> 1, end_date |-> 2, impact |-> "INDISPONIBLE"] }

UnavailQueries ==
    { NoQuery, [date_from |-> 2], [date_to |-> 1], [date_from |-> 1, date_to |-> 2] }

UnavailRequests ==
    { Request("create_unavail", c, pl, NoId, NoQuery) :
        c \in {Cred("sal1"), Cred("sal2"), Cred("sal0"), Cred("chef"), Cred("resp"), BadToken},
        pl \in UnavailPayloads }
    \cup { Request("list_unavail", c, NoPayload, NoId, q) :
             c \in {Cred("sal1"), Cred("sal0"), Cred("resp")}, q \in UnavailQueries }

NextUnavail ==
    \/ Receive("p1", OneEmployee)
    \/ \E r \in UnavailRequests : Receive("p1", r)
    \/ CreateEmployee("p1")
    \/ CreateUnavail("p1")
    \/ ListUnavail("p1")

SpecUnavail == Init /\ [][NextUnavail]_vars

SmallPayloads ==
    [ create_employee |-> { [first_name |-> <<"a">>, last_name |-> <<"b">>],
                            [first_name |-> <<"b">>, last_name |-> <<"a">>],
                            [first_name |-> <<"a">>] },
      create_assignment |-> { AssignmentPayload(1, "ME1", BROUILLON), AssignmentPayload(2, "ME1", VALIDE),
                              AssignmentPayload(1, "BAD", SOUMIS), [status |-> SOUMIS] },
      update_assignment |-> { [status |-> VALIDE], [activity |-> "BAD"], NoPayload },
      create_unavail |-> { UnavailPayload(1, "CP", SOUMIS), UnavailPayload(2, "CP", VALIDE),
                           UnavailPayload(1, "BAD", BROUILLON), [status |-> SOUMIS] } ]

AssignmentQueries ==
    { NoQuery, [activity |-> "ME1"], [activity |-> "BAD"], [date_from |-> 2], [date_to |-> 1],
      [activity |-> "ME1", date_from |-> 1, date_to |-> 2] }

Callers == { Cred("sal1"), Cred("sal2"), Cred("sal0"), Cred("chef"), Cred("resp") }

\* Every operation, from every role, with few payloads
SmallRequests ==
    UNION { { Request(op, c, pl, IF op = "update_assignment" THEN 1 ELSE NoId, NoQuery) :
                     c \in {Cred("sal1"), Cred("chef"), Cred("resp")}, pl \in SmallPayloads[op] } :
                 op \in DOMAIN SmallPayloads }
    \cup { Request("update_assignment", Cred("resp"), [status |-> REFUSE], 3, NoQuery),
           Request("create_unavail", Cred("sal2"), UnavailPayload(2, "CP", BROUILLON), NoId, NoQuery),
           Request("create_assignment", BadToken, NoPayload, NoId, NoQuery) }
    \cup { Request("list_employees", c, NoPayload, NoId, NoQuery) : c \in Callers \cup {BadToken} }
    \cup { Request("list_assignments", c, NoPayload, NoId, q) : c \in Callers, q \in AssignmentQueries }
    \cup { Request("list_unavail", c, NoPayload, NoId, q) : c \in Callers, q \in UnavailQueries }

Next ==
    \/ \E r \in SmallRequests : Receive("p1", r)
    \/ CreateEmployee("p1")
    \/ ListEmployees("p1")
    \/ CreateAssignment("p1")
    \/ UpdateAssignmentRead("p1")
    \/ UpdateAssignmentWrite("p1")
    \/ ListAssignments("p1")
    \/ CreateUnavail("p1")
    \/ ListUnavail("p1")

Spec == Init /\ [][Next]_vars

\* ================================================================= claims
Completes(p) == req[p] # Idle /\ req'[p] = Idle

\* The role of the caller of an exchange or request (NULL when not authenticated)
RoleOf(cred) ==
    IF cred.kind = "valid" /\ \E u \in user_profiles : u.user_id = cred.sub /\ u.is_active
    THEN ProfileOf(cred.sub).role ELSE NULL

LinkOf(cred) == ProfileOf(cred.sub).employee_id

\* ------------------------------------------------------------------- C1
ListOps == {"list_employees", "list_assignments", "list_unavail"}

RowOwner(op, row) == IF op = "list_employees" THEN row.id ELSE row.employee_id

\* What a SALARIE linked to employee `own` may get from a list: rows of that
\* employee only, and exactly the empty sequence when unlinked
SalarieSees(own, op, r) ==
    /\ \A i \in 1..Len(r.rows) : RowOwner(op, r.rows[i]) = own
    /\ own = NoId => r = OkRows(<<>>)

\* C1: for Employee, Assignment and Unavailability, every store content and
\* every query, a list by a SALARIE returns only rows of the caller's linked
\* employee (for Employee: the row with that id), and the empty sequence, not
\* an error, when the caller is unlinked.
C1_SalarieListsOwnRowsOnly ==
    /\ \A p \in Procs :
         (last[p].request.op \in ListOps /\ RoleOf(last[p].request.cred) = SALARIE)
         => SalarieSees(LinkOf(last[p].request.cred), last[p].request.op, last[p].response)
    /\ \A c \in { k \in Callers : RoleOf(k) = SALARIE } :
         /\ \A r \in list_employees(c, employees) : SalarieSees(LinkOf(c), "list_employees", r)
         /\ \A q \in AssignmentQueries : \A r \in list_assignments(c, q, assignments, employees) :
              SalarieSees(LinkOf(c), "list_assignments", r)
         /\ \A q \in UnavailQueries : \A r \in list_unavail(c, q, unavailabilities, employees) :
              SalarieSees(LinkOf(c), "list_unavail", r)

\* A SALARIE linked to employee 1 lists assignments and gets a row while the
\* table also holds a row of employee 2
C1_Witness ==
    /\ last["p1"].request.op = "list_assignments"
    /\ last["p1"].request.cred = Cred("sal1")
    /\ Len(last["p1"].response.rows) = 1
    /\ \E i \in 1..Len(assignments) : assignments[i].employee_id = 2

\* ------------------------------------------------------------------- C2
ChefWrote(x) ==
    /\ x.request.op = "update_assignment"
    /\ RoleOf(x.request.cred) = CHEF_CHANTIER
    /\ x.response = OkUpdated(1)

\* C2 (as amended): a write of a CHEF_CHANTIER update_assignment request is
\* applied only when the status that request read was BROUILLON or SOUMIS.
C2_ChefWritesOnlyAfterReadingOpenStatus ==
    \A p \in Procs : ChefWrote(last[p]) => last[p].request.current_status \in {BROUILLON, SOUMIS}

\* C2 (as stated): in every interleaving, no write of a CHEF_CHANTIER request
\* is applied to a row whose stored status at the moment of the write is
\* VALIDE or REFUSE.
C2_NoChefWriteOnDecidedRow ==
    [][ \A p \in Procs :
          ( /\ req[p].op = "update_assignment"
            /\ Completes(p)
            /\ ChefWrote(last'[p]) )
          => assignments[req[p].id].status \in {BROUILLON, SOUMIS} ]_vars

\* The chef's write was applied after a RESPONSABLE validated the row, the
\* chef having read the status before that
C2_Witness ==
    \E p \in Procs : \E q \in Others(p) :
        /\ ChefWrote(last[p])
        /\ last[p].request.current_status = BROUILLON
        /\ last[q].request.op = "update_assignment"
        /\ last[q].request.payload = [status |-> VALIDE]
        /\ last[q].response = OkUpdated(1)
        /\ last[q].beside.op = "update_assignment"
        /\ last[q].beside.pc = "write"
        /\ assignments[1].status = VALIDE

\* ------------------------------------------------------------------- C3
ChefCreate(r) == r.op = "create_assignment" /\ RoleOf(r.cred) = CHEF_CHANTIER
ChefUpdate(r) == r.op = "update_assignment" /\ RoleOf(r.cred) = CHEF_CHANTIER

Complete(payload, required) == \A i \in 1..Len(required) : required[i] \in DOMAIN payload

\* C3: no CHEF_CHANTIER request writes status VALIDE or REFUSE.  A create by
\* a chef with a status outside {BROUILLON, SOUMIS} and an update by a chef
\* proposing VALIDE or REFUSE are rejected and leave the store unchanged, with
\* Forbidden whenever the request reaches the policy checks (the create
\* carries every required field; the update targets an existing assignment,
\* whatever its stored status); and every assignment whose status is VALIDE
\* or REFUSE got that status from a RESPONSABLE request.
C3_ChefNeverDecides ==
    [][ /\ \A p \in Procs :
             ( /\ ChefCreate(req[p]) /\ Completes(p)
               /\ "status" \in DOMAIN req[p].payload
               /\ req[p].payload["status"] \notin {BROUILLON, SOUMIS} )
             => /\ IsError(last'[p].response)
                /\ assignments' = assignments
                /\ Complete(req[p].payload, AssignmentRequired) => last'[p].response.code = 403
        /\ \A p \in Procs :
             ( /\ ChefUpdate(req[p]) /\ Completes(p)
               /\ "status" \in DOMAIN req[p].payload
               /\ req[p].payload["status"] \in {VALIDE, REFUSE} )
             => /\ IsError(last'[p].response)
                /\ assignments' = assignments
                /\ req[p].id \in 1..Len(assignments) => last'[p].response.code = 403
        /\ \A i \in 1..Len(assignments') :
             assignments'[i].status \in {VALIDE, REFUSE}
             => ProfileOf(statusBy'[i]).role = RESPONSABLE ]_vars

\* A chef proposed VALIDE on an assignment read as BROUILLON and got Forbidden
C3_Witness ==
    /\ ChefUpdate(last["p1"].request)
    /\ last["p1"].request.payload = [status |-> VALIDE]
    /\ last["p1"].request.current_status = BROUILLON
    /\ last["p1"].response.code = 403
    /\ \E i \in 1..Len(assignments) : assignments[i].status = REFUSE

\* ------------------------------------------------------------------- C4
\* C4: a CHEF_CHANTIER update_assignment on an existing assignment whose
\* status, as the request read it, is VALIDE or REFUSE is rejected with
\* Forbidden whatever the payload (empty or unrecognised included) and leaves
\* the row unchanged; the outcome depends on nothing else, so repeating it
\* gives the same denial.
C4_ChefDeniedOnDecidedRow ==
    [][ \A p \in Procs :
          ( /\ ChefUpdate(req[p]) /\ Completes(p)
            /\ req[p].pc = "write"
            /\ req[p].current_status \in {VALIDE, REFUSE} )
          => /\ last'[p].response.code = 403
             /\ assignments' = assignments ]_vars

\* A chef sent an empty payload for an assignment read as VALIDE: Forbidden
C4_Witness ==
    /\ ChefUpdate(last["p1"].request)
    /\ last["p1"].request.payload = NoPayload
    /\ last["p1"].request.current_status = VALIDE
    /\ last["p1"].response.code = 403

\* ------------------------------------------------------------------- C5
SlotOf(payload) ==
    <<payload["employee_id"], payload["assign_date"], payload["activity"], payload["role"], payload["shift"]>>

\* A create_assignment request that a store with a free slot would accept
ValidCreate(r) ==
    /\ r.op = "create_assignment"
    /\ RoleOf(r.cred) \in {CHEF_CHANTIER, RESPONSABLE}
    /\ Complete(r.payload, AssignmentRequired)
    /\ RoleOf(r.cred) = CHEF_CHANTIER => r.payload["status"] \in {BROUILLON, SOUMIS}
    /\ r.payload["employee_id"] \in 1..Len(employees)
    /\ r.payload["activity"] \in Elems(activity_type)
    /\ r.payload["status"] \in Elems(request_status)

Holders(slot) == { i \in 1..Len(assignments) : Slot(assignments[i]) = slot }

\* The exchanges of p and q overlapped (p's request was in flight when q's
\* returned), both are acceptable creations of the same slot, no other row
\* holds the slot and no later update moved a row they created
Raced(p, q) ==
    /\ ValidCreate(last[p].request)
    /\ ValidCreate(last[q].request)
    /\ last[q].beside = last[p].request
    /\ SlotOf(last[p].request.payload) = SlotOf(last[q].request.payload)
    /\ Holders(SlotOf(last[p].request.payload)) \subseteq {last[p].response.id, last[q].response.id}
    /\ \A w \in {p, q} :
         last[w].response.code = 200 => last[w].response.id \in Holders(SlotOf(last[p].request.payload))

\* C5: of two create_assignment requests by permitted roles that run
\* concurrently with the identical (employee, date, activity, role, shift)
\* tuple, against a store enforcing uniqueness, exactly one succeeds and
\* returns the id of the one row holding the tuple, the other fails with
\* BadRequest "Insert failed"; nothing is retried or merged.
C5_OneOfTwoCreates ==
    \A p \in Procs : \A q \in Others(p) :
        Raced(p, q) =>
            \E w \in {p, q} : \E l \in {p, q} \ {w} :
                /\ last[w].response.code = 200
                /\ Holders(SlotOf(last[p].request.payload)) = {last[w].response.id}
                /\ last[l].response = HTTPException(400, "Insert failed")

\* The request that returned first won, the one in flight beside it lost
C5_Witness ==
    \E p \in Procs : \E q \in Others(p) :
        /\ Raced(p, q)
        /\ last[q].response.code = 200
        /\ last[p].response.code = 400

\* ------------------------------------------------------------------- C6
WriteOps == {"create_employee", "create_assignment", "update_assignment", "create_unavail"}

\* C6: a write the store rejects fails with BadRequest, for every write
\* operation; it never surfaces as a server fault.
C6_StoreRejectionIsBadRequest ==
    \A p \in Procs : last[p].request.op \in WriteOps => last[p].response.code # 500

\* ------------------------------------------------------------------- C7
Spaces(s) == \A i \in 1..Len(s) : s[i] = " "

\* t is s without its leading and trailing whitespace
Stripped(t, s) ==
    /\ t # <<>> => t[1] # " " /\ t[Len(t)] # " "
    /\ \E i \in 0..Len(s) :
         /\ i + Len(t) <= Len(s)
         /\ SubSeq(s, i + 1, i + Len(t)) = t
         /\ Spaces(SubSeq(s, 1, i))
         /\ Spaces(SubSeq(s, i + Len(t) + 1, Len(s)))

Created(x) == x.request.op = "create_employee" /\ x.response.code = 200

Listed(emps, id, first_name, last_name, email, phone) ==
    \A r \in list_employees(Cred("resp"), emps) :
        \E i \in 1..Len(r.rows) :
            /\ r.rows[i].id = id
            /\ r.rows[i].first_name = first_name
            /\ r.rows[i].last_name = last_name
            /\ r.rows[i].email = email
            /\ r.rows[i].phone = phone

OptionalField(payload, k) == IF k \in DOMAIN payload THEN payload[k] ELSE NULL

\* C7 (as amended): an accepted create_employee returns a generated id, and a
\* later list_employees by a RESPONSABLE holds a row with that id whose
\* first_name and last_name are the submitted ones with leading and trailing
\* whitespace removed, and whose email and phone are the submitted ones
\* (null when absent); rows never change afterwards.
C7_RoundTripStripsNames ==
    [][ /\ \A p \in Procs :
             Created(last'[p]) =>
                 \E f, l \in { employees'[i].first_name : i \in 1..Len(employees') }
                             \cup { employees'[i].last_name : i \in 1..Len(employees') } :
                     /\ Stripped(f, last'[p].request.payload["first_name"])
                     /\ Stripped(l, last'[p].request.payload["last_name"])
                     /\ Listed(employees', last'[p].response.id, f, l,
                               OptionalField(last'[p].request.payload, "email"),
                               OptionalField(last'[p].request.payload, "phone"))
        /\ \A i \in 1..Len(employees) : Len(employees') >= i /\ employees'[i] = employees[i] ]_vars

\* C7 (as stated): the listed row carries first_name, last_name, email and
\* phone exactly as submitted, names with leading or trailing whitespace
\* included.
C7_RoundTripUnchanged ==
    \A p \in Procs :
        Created(last[p]) =>
            Listed(employees, last[p].response.id,
                   last[p].request.payload["first_name"], last[p].request.payload["last_name"],
                   OptionalField(last[p].request.payload, "email"),
                   OptionalField(last[p].request.payload, "phone"))

\* A name with a leading space and an email were accepted, a second employee
C7_Witness ==
    /\ Created(last["p1"])
    /\ last["p1"].request.payload["first_name"] = <<" ", "a">>
    /\ "email" \in DOMAIN last["p1"].request.payload
    /\ last["p1"].response.id = 2

\* ------------------------------------------------------------------- C8
Recognised(payload) ==
    DOMAIN payload \cap {"activity", "assign_date", "role", "shift", "is_pf", "status"}

MayEdit(r) ==
    \/ RoleOf(r.cred) = RESPONSABLE
    \/ RoleOf(r.cred) = CHEF_CHANTIER /\ r.current_status \in {BROUILLON, SOUMIS}

\* C8 (as amended): an update_assignment payload with no recognised field
\* returns success with updated 0 and writes nothing, for a RESPONSABLE on
\* any existing assignment and for a CHEF_CHANTIER when the status the
\* request read is BROUILLON or SOUMIS.
C8_NoRecognisedFieldUpdatesNothing ==
    [][ \A p \in Procs :
          ( /\ req[p].op = "update_assignment" /\ Completes(p)
            /\ req[p].pc = "write"
            /\ Recognised(req[p].payload) = {}
            /\ MayEdit(req[p]) )
          => /\ last'[p].response = OkUpdated(0)
             /\ assignments' = assignments ]_vars

\* C8 (as stated): the same for every permitted role and every stored state
\* of the assignment.
C8_AnyStoredState ==
    \A p \in Procs :
        ( /\ last[p].request.op = "update_assignment"
          /\ last[p].request.pc = "write"
          /\ RoleOf(last[p].request.cred) \in {CHEF_CHANTIER, RESPONSABLE}
          /\ Recognised(last[p].request.payload) = {} )
        => last[p].response = OkUpdated(0)

\* A RESPONSABLE sent only unrecognised keys for a VALIDE assignment
C8_Witness ==
    /\ last["p1"].request.op = "update_assignment"
    /\ last["p1"].request.cred = Cred("resp")
    /\ last["p1"].request.payload = [id |-> 2, created_by |-> "chef"]
    /\ last["p1"].request.current_status = VALIDE
    /\ last["p1"].response = OkUpdated(0)

\* ------------------------------------------------------------------- C9
Denied(r) ==
    \/ RoleOf(r.cred) = CHEF_CHANTIER
    \/ /\ RoleOf(r.cred) = SALARIE
       /\ \/ LinkOf(r.cred) = NoId
          \/ r.payload["employee_id"] # LinkOf(r.cred)
          \/ r.payload["status"] \in {VALIDE, REFUSE}

MayHaveInserted(row) ==
    LET by == ProfileOf(row.requested_by) IN
    \/ by.role = RESPONSABLE
    \/ /\ by.role = SALARIE
       /\ by.employee_id # NoId
       /\ by.employee_id = row.employee_id
       /\ row.status \in {BROUILLON, SOUMIS}

\* C9: every Unavailability row was inserted by a RESPONSABLE, or by a
\* SALARIE linked to the row's employee with status BROUILLON or SOUMIS; a
\* create_unavail (carrying the required fields) by a CHEF_CHANTIER, by a
\* SALARIE for another employee, by an unlinked SALARIE, or by a SALARIE with
\* status VALIDE or REFUSE is rejected with Forbidden and inserts nothing.
C9_UnavailInsertedByPolicy ==
    [][ /\ \A i \in 1..Len(unavailabilities') : MayHaveInserted(unavailabilities'[i])
        /\ \A p \in Procs :
             ( /\ req[p].op = "create_unavail" /\ Completes(p)
               /\ Complete(req[p].payload, UnavailRequired)
               /\ Denied(req[p]) )
             => /\ last'[p].response.code = 403
                /\ unavailabilities' = unavailabilities ]_vars

\* A SALARIE asked VALIDE for their own employee and got Forbidden, a row of
\* theirs and a row created by a RESPONSABLE for another employee being stored
C9_Witness ==
    /\ last["p1"].request.op = "create_unavail"
    /\ last["p1"].request.cred = Cred("sal1")
    /\ last["p1"].request.payload = UnavailPayload(1, "CP", VALIDE)
    /\ last["p1"].response.code = 403
    /\ \E i \in 1..Len(unavailabilities) : unavailabilities[i].requested_by = "sal1"
    /\ \E i \in 1..Len(unavailabilities) :
         unavailabilities[i].requested_by = "resp" /\ unavailabilities[i].employee_id = 2

\* ------------------------------------------------------------------ C10
\* C10: a request that ends in an error leaves the three tables as they
\* were; a table changes only in the step in which a handler returns
\* success, and in one piece.
C10_ErrorsWriteNothing ==
    [][ /\ \A p \in Procs : (Completes(p) /\ IsError(last'[p].response)) => tables' = tables
        /\ tables' # tables => \E p \in Procs : Completes(p) /\ last'[p].response.code = 200 ]_vars

\* The store rejected an update (a server fault) with rows in every table
C10_Witness ==
    /\ last["p1"].request.op = "update_assignment"
    /\ last["p1"].response.code = 500
    /\ Len(assignments) > 0 /\ Len(unavailabilities) > 0

====
